---- MODULE Spec2Model ----
(***************************************************************************)
(* Model of src/app.py: the Spliit importer.  One Streamlit session: the   *)
(* session state (st.session_state), the handlers of the buttons (Fetch    *)
(* Group, Fetch Statements, Upload to Spliit), and the two remote          *)
(* services (Spliit ledger, Monobank statements) as nondeterministic       *)
(* environments whose calls are logged.                                    *)
(*                                                                         *)
(* Dates are day numbers (integers); money is in integer minor units; a    *)
(* normalized amount (a Python float, abs(raw)/100.0) is represented by    *)
(* the integer n it was made from, i.e. it stands for the double nearest   *)
(* to n/100.  Python's None is the string "None".                          *)
(***************************************************************************)
EXTENDS Integers, Sequences, FiniteSets, TLC

VARIABLES
    spliit_client,          \* st.session_state["spliit_client"]: a group id or None
    group_data,             \* st.session_state["group_data"]: a group id or None
    selected_participant,   \* st.session_state["selected_participant"]
    participant_shares,     \* st.session_state["participant_shares"]: name -> percent
    transactions,           \* st.session_state["transactions"]: the pending list
    last_run,               \* the button handler the last script run executed and how it
                            \* ended, "rerun" for a run without a button
    participants_calls,     \* get_participants calls made by upload_to_spliit in the last run
    expense_calls,          \* add_expense calls of the last run, in call order
    upload_input,           \* the list handed to upload_to_spliit in the last run
    upload_ok,              \* what upload_to_spliit returned in the last run
    success_count,          \* what upload_transactions_batch returned in the last run
    upload_error,           \* the message upload_to_spliit showed before returning False
    start_date,             \* the Start Date input of the running fetch
    end_date,               \* the End Date input of the running fetch
    current_to_date,        \* the fetch loop's cursor
    all_statements,         \* the fetch loop's accumulator of raw entries
    calls,                  \* get_statements calls of the fetch, in call order
    fetch_pc,               \* position of the Fetch Statements handler
    fetch_error,            \* the st.error the fetch reported, or "none"
    progress                \* last value given to progress_bar.progress: <<num, den>>

vars == <<spliit_client, group_data, selected_participant, participant_shares,
          transactions, last_run, participants_calls, expense_calls, upload_input,
          upload_ok, success_count, upload_error, start_date, end_date,
          current_to_date, all_statements, calls, fetch_pc, fetch_error, progress>>

groupVars == <<spliit_client, group_data, selected_participant, participant_shares>>
uploadVars == <<participants_calls, expense_calls, upload_input, upload_ok,
                success_count, upload_error>>
fetchVars == <<start_date, end_date, current_to_date, all_statements, calls,
               fetch_pc, fetch_error, progress>>

None == "None"

\* None where a group id is expected (spliit_client, group_data)
NoGroup == -1

(***************************************************************************)
(* Bounds of the model.                                                    *)
(***************************************************************************)
MaxParticipants == 7    \* largest group the ledger service holds
MaxDay == 63            \* dates are the days 0..MaxDay
MaxPerWindow == 2       \* most entries one get_statements call returns
MaxRetries == 1         \* most rate-limit signals during one fetch
MaxPending == 2         \* longest pending list of mixed rows handed to an upload
MaxBatch == 5           \* longest pending list of valid rows handed to an upload
UploadGroup == 2        \* the group (and its size) the uploads go to
MaxRaw == 150           \* raw amounts -MaxRaw..MaxRaw are normalized

(***************************************************************************)
(* The ledger group service: group g has the first g names as its          *)
(* participants, in the order get_participants returns them (a dict keeps  *)
(* insertion order).  Group 0 has no participant.                          *)
(***************************************************************************)
AllNames == <<"Ann", "Bob", "Cat", "Dan", "Eve", "Fay", "Gus", "Hal", "Ian", "Joy">>

GroupIds == 0..MaxParticipants

ParticipantNames(g) == SubSeq(AllNames, 1, g)

Range(s) == {s[i] : i \in DOMAIN s}

RECURSIVE SumOver(_, _)
SumOver(f, S) ==
    IF S = {} THEN 0
    ELSE LET x == CHOOSE y \in S : TRUE
         IN f[x] + SumOver(f, S \ {x})

\* total of a share map (dict name -> percent)
ShareSum(shares) == SumOver(shares, DOMAIN shares)

\* mutant: the quotient is rounded up
EqualShare_Ceil(n) == (100 + n - 1) \div n

\* int(100 / len(participants)): the float quotient truncated; exact for 1..100
EqualShare(n) == 100 \div n

\* mutant: the last participant gets the base share, the remainder is dropped
LastParticipantShare_NoRemainder(n) == EqualShare(n)

\* 100 - (equal_share * remaining_participants)
LastParticipantShare(n) == 100 - EqualShare(n) * (n - 1)

\* mutant: the remainder goes to the first key instead of the last
DefaultShares_RemainderFirst(names) ==
    LET n == Len(names)
    IN [p \in Range(names) |->
          IF p = names[1] THEN LastParticipantShare(n) ELSE EqualShare(n)]

\* the dict built at lines 215-217: equal_share for all but the last key, the
\* remainder for the last key
DefaultShares(names) ==
    LET n == Len(names)
    IN [p \in Range(names) |->
          IF p = names[n] THEN LastParticipantShare(n) ELSE EqualShare(n)]

\* the selectbox of lines 234-243: the widget keeps the chosen name while it is
\* one of its options, and falls back to the placeholder otherwise
RenderSelected(sel, names) == IF sel \in Range(names) THEN sel ELSE None

\* the number inputs of lines 257-268: every participant name gets an entry,
\* participant_shares.get(name, 0) for one that had none
RenderShares(shares, names) ==
    [p \in DOMAIN shares \cup Range(names) |->
        IF p \in DOMAIN shares THEN shares[p] ELSE 0]

(***************************************************************************)
(* Observations of a script run that did not upload: a rerun redraws the   *)
(* page, so the messages and calls of the run before are gone.             *)
(***************************************************************************)
NoUploadRun ==
    /\ participants_calls' = 0
    /\ expense_calls' = <<>>
    /\ upload_input' = <<>>
    /\ upload_ok' = FALSE
    /\ success_count' = 0
    /\ upload_error' = "none"

\* the upload's messages are on the page until the next script run redraws it
PageSettled == last_run # "upload"

\* a script run in which no button is pressed and no input changed: the page is
\* redrawn, the messages of the run before are gone, the session is kept
Rerun ==
    /\ ~PageSettled
    /\ last_run' = "rerun"
    /\ NoUploadRun
    /\ UNCHANGED <<groupVars, transactions, fetchVars>>

(***************************************************************************)
(* Lines 224-271, run by every script run after the button handlers: the   *)
(* participant selectbox and the share inputs write into the session.      *)
(* renderOk is whether the get_participants call of line 226 returns.      *)
(***************************************************************************)
RenderGroup(client, gdata, sel, shares, renderOk) ==
    IF gdata = NoGroup \/ ~renderOk \/ client = NoGroup \/ ParticipantNames(client) = <<>>
    THEN [selected |-> sel, shares |-> shares]
    ELSE LET names == ParticipantNames(client)
             s == RenderSelected(sel, names)
         IN [selected |-> s,
             shares |-> IF s # None THEN RenderShares(shares, names) ELSE shares]

(***************************************************************************)
(* The Fetch Group button, lines 191-221.  The client is stored before     *)
(* get_group is called; get_group, get_participants or the division by     *)
(* len(participants) may raise, and the except clause only reports it.     *)
(***************************************************************************)
FetchGroupOutcomes == {"ok", "get_group_raises", "get_participants_raises"}

FetchGroupIn(groups) ==
    /\ PageSettled
    /\ \E g \in groups, outcome \in FetchGroupOutcomes, renderOk \in BOOLEAN :
        LET names == ParticipantNames(g)
            gdata == IF outcome = "get_group_raises" THEN group_data ELSE g
            done == outcome = "ok" /\ Len(names) > 0
            shares == IF done THEN DefaultShares(names) ELSE participant_shares
            r == RenderGroup(g, gdata, selected_participant, shares,
                             renderOk /\ outcome = "ok")
        IN /\ spliit_client' = g
           /\ group_data' = gdata
           /\ selected_participant' = r.selected
           /\ participant_shares' = r.shares
           /\ last_run' = IF done THEN "fetch_group_ok" ELSE "fetch_group_failed"
           /\ NoUploadRun
           /\ UNCHANGED <<transactions, fetchVars>>

FetchGroup == FetchGroupIn(GroupIds)

(***************************************************************************)
(* The user picks an entry of the participant selectbox (lines 234-243);   *)
(* the share inputs are drawn once somebody is selected (lines 246-268).   *)
(***************************************************************************)
SelectParticipant ==
    /\ PageSettled
    /\ group_data # NoGroup
    /\ spliit_client # NoGroup
    /\ \E p \in Range(ParticipantNames(spliit_client)) \cup {None} :
        LET r == RenderGroup(spliit_client, group_data, p, participant_shares, TRUE)
        IN /\ p # selected_participant
           /\ selected_participant' = r.selected
           /\ participant_shares' = r.shares
    /\ last_run' = "rerun"
    /\ NoUploadRun
    /\ UNCHANGED <<spliit_client, group_data, transactions, fetchVars>>

(***************************************************************************)
(* The session when the script first runs, lines 176-189 and 284-285.      *)
(***************************************************************************)
InitSession ==
    /\ spliit_client = NoGroup
    /\ group_data = NoGroup
    /\ selected_participant = None
    /\ participant_shares = <<>>
    /\ last_run = "start"
    /\ participants_calls = 0
    /\ expense_calls = <<>>
    /\ upload_input = <<>>
    /\ upload_ok = FALSE
    /\ success_count = 0
    /\ upload_error = "none"

InitNoFetch ==
    /\ start_date = 0
    /\ end_date = 0
    /\ current_to_date = 0
    /\ all_statements = <<>>
    /\ calls = <<>>
    /\ fetch_pc = "idle"
    /\ fetch_error = "none"
    /\ progress = <<0, 1>>

(***************************************************************************)
(* SpecGroup: the Step 1 part of the page, groups of up to MaxParticipants.*)
(***************************************************************************)
InitGroup == InitSession /\ InitNoFetch /\ transactions = <<>>

NextGroup == FetchGroup \/ SelectParticipant

SpecGroup == InitGroup /\ [][NextGroup]_vars

(***************************************************************************)
(* Claims about the default shares.                                        *)
(***************************************************************************)
FetchedNames == ParticipantNames(spliit_client)

\* C2: after a group with N >= 1 participants is fetched, the share map holds a
\* non-negative integer percent for each participant of the group and the
\* percents sum to exactly 100.
C2_DefaultSharesSumTo100 ==
    last_run = "fetch_group_ok" =>
        /\ Len(FetchedNames) >= 1
        /\ DOMAIN participant_shares = Range(FetchedNames)
        /\ \A p \in DOMAIN participant_shares : participant_shares[p] \in 0..100
        /\ ShareSum(participant_shares) = 100

C2_Witness ==
    /\ last_run = "fetch_group_ok"
    /\ Len(FetchedNames) = 3
    /\ participant_shares = [p \in {"Ann", "Bob", "Cat"} |->
                                IF p = "Cat" THEN 34 ELSE 33]

\* C3 as stated: in the default share map no two participants' shares differ
\* by more than 1.
C3_SharesWithinOne ==
    last_run = "fetch_group_ok" =>
        \A p, q \in DOMAIN participant_shares :
            participant_shares[p] - participant_shares[q] <= 1

\* C3 as amended: the first N-1 participants each hold floor(100/N) and the last
\* holds floor(100/N) + (100 mod N), so two shares differ by at most 100 mod N.
C3_SharesWithinRemainder ==
    last_run = "fetch_group_ok" =>
        LET n == Len(FetchedNames)
        IN /\ \A i \in 1..(n - 1) : participant_shares[FetchedNames[i]] = 100 \div n
           /\ participant_shares[FetchedNames[n]] = (100 \div n) + (100 % n)
           /\ \A p, q \in DOMAIN participant_shares :
                participant_shares[p] - participant_shares[q] <= 100 % n

C3_Witness ==
    /\ last_run = "fetch_group_ok"
    /\ Len(FetchedNames) = 6
    /\ participant_shares["Ann"] = 16
    /\ participant_shares["Fay"] = 20

(***************************************************************************)
(* The statement fetch, lines 344-431.                                     *)
(***************************************************************************)
Days == 0..MaxDay

\* datetime.timedelta(days=30), line 358
ChunkDays == 30

\* the cooldowns of lines 389-391 and 395, in seconds
Cooldown == 5

Max(a, b) == IF a >= b THEN a ELSE b
Min(a, b) == IF a <= b THEN a ELSE b
Abs(x) == IF x < 0 THEN 0 - x ELSE x

\* raw entries of the bank statement service: signed minor units, debits negative
RawAmounts == <<-15000, 250, 0, -29>>
RawDescriptions == <<"Coffee", "Taxi", "Refund">>
RawMccs == <<"5812", "4121">>

\* the i-th entry the bank hands out during a fetch, for a window starting at day
Statement(i, day) ==
    [id |-> i,
     amount |-> RawAmounts[(i % Len(RawAmounts)) + 1],
     description |-> RawDescriptions[(i % Len(RawDescriptions)) + 1],
     mcc |-> RawMccs[(i % Len(RawMccs)) + 1],
     time |-> day]

\* what get_statements returns for a window when it returns k entries, the
\* accumulator holding n entries already
Statements(n, k, day) == [j \in 1..k |-> Statement(n + j, day)]

\* get_mcc_description, lines 31-34: the cached table, or the placeholder
MccDescription(mcc) ==
    IF mcc = "5812" THEN "Eating Places, Restaurants" ELSE "Unknown (mcc)"

\* mutant: the amount keeps the sign the bank gave it
Normalize_Signed(s) ==
    [id |-> s.id,
     amount |-> s.amount,
     name |-> s.description,
     mcc |-> s.mcc,
     category |-> MccDescription(s.mcc),
     selected |-> FALSE,
     date |-> s.time]

\* lines 407-421: one raw entry as a pending transaction.  amount is
\* abs(s.get("amount", 0)) / 100.0, held as the integer it was divided from.
Normalize(s) ==
    [id |-> s.id,
     amount |-> Abs(s.amount),
     name |-> s.description,
     mcc |-> s.mcc,
     category |-> MccDescription(s.mcc),
     selected |-> FALSE,
     date |-> s.time]

\* mutant: the newest entry comes last
NormalizeAll_Reversed(statements) ==
    [i \in DOMAIN statements |-> Normalize(statements[Len(statements) + 1 - i])]

\* lines 406-421: new_transactions
NormalizeAll(statements) == [i \in DOMAIN statements |-> Normalize(statements[i])]

\* mutant: the range check lets every range through
RangeValid_Always(start, end) == TRUE

\* line 345, negated: the range the handler accepts
RangeValid(start, end) == start <= end

\* mutant: a window of 30 days counting both ends
CurrentFromDate_29(start, to) == Max(start, to - (ChunkDays - 1))

\* lines 356-359: current_from_date
CurrentFromDate(start, to) == Max(start, to - ChunkDays)

\* mutant: the next window ends on the day the current one starts
NextToDate_Overlap(from) == from

\* mutant: the window end is put back where it was
NextToDate_Stay(from) == from + ChunkDays

\* line 386: the next current_to_date
NextToDate(from) == from - 1

\* lines 376-378: min(1.0, days_processed / total_days) as <<num, den>>;
\* evaluated only when total_days # 0
ProgressOf(start, end, from) ==
    <<Min(end - from, end - start), end - start>>

\* where one pass of the loop body leaves the handler:
\*   to: current_to_date, pc: the handler's position, error: the st.error shown,
\*   slept: seconds slept before the next pass

\* mutant: an empty window ends the loop
AfterStatements_StopOnEmpty(start, end, from, to, k) ==
    IF end - start = 0
    THEN [to |-> to, pc |-> "normalize", error |-> "chunk", slept |-> 0,
          progress |-> progress]
    ELSE IF from <= start \/ k = 0
    THEN [to |-> to, pc |-> "normalize", error |-> "none", slept |-> 0,
          progress |-> ProgressOf(start, end, from)]
    ELSE [to |-> NextToDate(from), pc |-> "loop", error |-> "none",
          slept |-> Cooldown, progress |-> ProgressOf(start, end, from)]

\* mutant: the next window is asked for at once
AfterStatements_NoCooldown(start, end, from, to, k) ==
    IF end - start = 0
    THEN [to |-> to, pc |-> "normalize", error |-> "chunk", slept |-> 0,
          progress |-> progress]
    ELSE IF from <= start
    THEN [to |-> to, pc |-> "normalize", error |-> "none", slept |-> 0,
          progress |-> ProgressOf(start, end, from)]
    ELSE [to |-> NextToDate(from), pc |-> "loop", error |-> "none",
          slept |-> 0, progress |-> ProgressOf(start, end, from)]

\* lines 371-391, get_statements having returned k entries: the progress update
\* divides by total_days, and a ZeroDivisionError lands in the except clause of
\* line 398
AfterStatements(start, end, from, to, k) ==
    IF end - start = 0
    THEN [to |-> to, pc |-> "normalize", error |-> "chunk", slept |-> 0,
          progress |-> progress]
    ELSE IF from <= start
    THEN [to |-> to, pc |-> "normalize", error |-> "none", slept |-> 0,
          progress |-> ProgressOf(start, end, from)]
    ELSE [to |-> NextToDate(from), pc |-> "loop", error |-> "none",
          slept |-> Cooldown, progress |-> ProgressOf(start, end, from)]

\* mutant: a rate-limit signal skips the window
AfterTooManyRequests_Skip(start, from, to) ==
    IF from <= start
    THEN [to |-> to, pc |-> "normalize", error |-> "none", slept |-> Cooldown,
          progress |-> progress]
    ELSE [to |-> NextToDate(from), pc |-> "loop", error |-> "none",
          slept |-> Cooldown, progress |-> progress]

\* lines 393-396: sleep and continue
AfterTooManyRequests(start, from, to) ==
    [to |-> to, pc |-> "loop", error |-> "none", slept |-> Cooldown,
     progress |-> progress]

\* mutant: the error is reported and the loop goes on with the next window
AfterException_Continue(start, from, to) ==
    IF from <= start
    THEN [to |-> to, pc |-> "normalize", error |-> "chunk", slept |-> 0,
          progress |-> progress]
    ELSE [to |-> NextToDate(from), pc |-> "loop", error |-> "chunk", slept |-> 0,
          progress |-> progress]

\* lines 398-400: report and break
AfterException(start, from, to) ==
    [to |-> to, pc |-> "normalize", error |-> "chunk", slept |-> 0,
     progress |-> progress]

RateLimitedCalls == Cardinality({i \in DOMAIN calls : calls[i].result = "too_many_requests"})

\* the Fetch Statements button, lines 344-352
FetchClick ==
    /\ fetch_pc = "idle"
    /\ \E s \in Days, e \in Days :
        /\ start_date' = s
        /\ end_date' = e
        /\ IF RangeValid(s, e)
           THEN /\ fetch_pc' = "loop"
                /\ fetch_error' = "none"
           ELSE /\ fetch_pc' = "done"
                /\ fetch_error' = "invalid_range"
        /\ current_to_date' = e
    /\ all_statements' = <<>>
    /\ calls' = <<>>
    /\ progress' = <<0, 1>>
    /\ last_run' = "fetch_statements"
    /\ NoUploadRun
    /\ UNCHANGED <<groupVars, transactions>>

\* one pass of the while loop, lines 354-400
FetchWindow ==
    /\ fetch_pc = "loop"
    /\ LET from == CurrentFromDate(start_date, current_to_date)
           to == current_to_date
       IN \E result \in {"ok", "too_many_requests", "error"}, k \in 0..MaxPerWindow :
            LET r == CASE result = "ok" ->
                            AfterStatements(start_date, end_date, from, to, k)
                       [] result = "too_many_requests" ->
                            AfterTooManyRequests(start_date, from, to)
                       [] OTHER -> AfterException(start_date, from, to)
            IN /\ result # "ok" => k = 0
               /\ result = "too_many_requests" => RateLimitedCalls < MaxRetries
               /\ calls' = Append(calls, [from |-> from, to |-> to, result |-> result,
                                          returned |-> k, slept |-> r.slept])
               /\ all_statements' =
                     IF result = "ok" /\ k > 0
                     THEN all_statements \o Statements(Len(all_statements), k, from)
                     ELSE all_statements
               /\ current_to_date' = r.to
               /\ fetch_pc' = r.pc
               /\ fetch_error' = IF r.error = "none" THEN fetch_error ELSE r.error
               /\ progress' = r.progress
    /\ UNCHANGED <<groupVars, transactions, last_run, uploadVars, start_date, end_date>>

\* mutant: the new entries are added to the pending list
FetchFinish_Merge ==
    /\ fetch_pc = "normalize"
    /\ progress' = <<1, 1>>
    /\ transactions' = transactions \o NormalizeAll(all_statements)
    /\ fetch_pc' = "done"
    /\ UNCHANGED <<groupVars, last_run, uploadVars, start_date, end_date,
                   current_to_date, all_statements, calls, fetch_error>>

\* lines 402-427: the loop is left, the entries are normalized and replace the
\* pending list
FetchFinish ==
    /\ fetch_pc = "normalize"
    /\ progress' = <<1, 1>>
    /\ transactions' = NormalizeAll(all_statements)
    /\ fetch_pc' = "done"
    /\ UNCHANGED <<groupVars, last_run, uploadVars, start_date, end_date,
                   current_to_date, all_statements, calls, fetch_error>>

\* a pending list left by an earlier fetch
OldTransaction == [Normalize(Statement(100, 0)) EXCEPT !.selected = TRUE]

(***************************************************************************)
(* SpecFetch: one run of the Fetch Statements handler, from a session with *)
(* an empty pending list or one left by an earlier fetch.                  *)
(***************************************************************************)
InitFetch ==
    /\ InitSession
    /\ InitNoFetch
    /\ transactions \in {<<>>, <<OldTransaction>>}

NextFetch == FetchClick \/ FetchWindow \/ FetchFinish

SpecFetch == InitFetch /\ [][NextFetch]_vars

(***************************************************************************)
(* Claims about the statement fetch.                                       *)
(***************************************************************************)
OkCalls == {i \in DOMAIN calls : calls[i].result = "ok"}

LoopLeft == fetch_pc \in {"normalize", "done"} /\ fetch_error # "invalid_range"

AllCallsOk == \A i \in DOMAIN calls : calls[i].result = "ok"

RangeDays == end_date - start_date + 1

\* the entries the service returned over the calls made, in call order
RECURSIVE ReturnedEntries(_)
ReturnedEntries(cs) ==
    IF cs = <<>> THEN <<>>
    ELSE LET before == ReturnedEntries(SubSeq(cs, 1, Len(cs) - 1))
             c == cs[Len(cs)]
         IN before \o Statements(Len(before), c.returned, c.from)

\* C4: when the loop is left and no call failed, the windows that were answered
\* partition [start_date, end_date]: each date of the range lies in exactly one
\* window, no window reaches outside the range, whatever each window returned.
C4_WindowsPartitionRange ==
    (LoopLeft /\ \A i \in DOMAIN calls : calls[i].result # "error") =>
        /\ \A d \in start_date..end_date :
              Cardinality({i \in OkCalls : calls[i].from <= d /\ d <= calls[i].to}) = 1
        /\ \A i \in DOMAIN calls :
              start_date <= calls[i].from /\ calls[i].from <= calls[i].to
                                          /\ calls[i].to <= end_date

C4_Witness ==
    /\ fetch_pc = "done"
    /\ AllCallsOk
    /\ Len(calls) = 3
    /\ calls[1].returned = 0
    /\ calls[2].returned = 0
    /\ calls[3].returned = 2

\* C5 as stated: every window spans at most 30 days counting both ends, and a
\* range of R days fetched without rate-limit signal or failure takes
\* ceil(R/30) calls.
C5_ThirtyDayWindows ==
    /\ \A i \in DOMAIN calls : calls[i].to - calls[i].from + 1 <= 30
    /\ (LoopLeft /\ AllCallsOk) => Len(calls) = (RangeDays + 29) \div 30

\* C5 as amended: every window spans at most 31 days counting both ends (its
\* start is max(start_date, window end - 30 days)), and a range of R days
\* fetched without rate-limit signal or failure takes ceil(R/31) calls.
C5_ThirtyOneDayWindows ==
    /\ \A i \in DOMAIN calls :
          /\ calls[i].to - calls[i].from + 1 <= 31
          /\ calls[i].from = Max(start_date, calls[i].to - 30)
    /\ (LoopLeft /\ AllCallsOk) => Len(calls) = (RangeDays + 30) \div 31

C5_Witness ==
    /\ fetch_pc = "done"
    /\ AllCallsOk
    /\ RangeDays = 31
    /\ Len(calls) = 1
    /\ calls[1].to - calls[1].from + 1 = 31

RateLimitedNow == Len(calls') = Len(calls) + 1
                  /\ calls'[Len(calls')].result = "too_many_requests"

\* C7: a call answered 'too many requests' leaves the accumulator, the cursor,
\* the pending list and the error report as they were, sleeps the cooldown and
\* keeps the handler in the loop; the call after it asks for the same window.
C7_RateLimitRetriesSameWindow ==
    /\ [][RateLimitedNow =>
             /\ all_statements' = all_statements
             /\ current_to_date' = current_to_date
             /\ transactions' = transactions
             /\ fetch_error' = fetch_error
             /\ fetch_pc' = "loop"
             /\ calls'[Len(calls')].slept = Cooldown]_vars
    /\ [](\A i \in DOMAIN calls :
             (calls[i].result = "too_many_requests" /\ i < Len(calls)) =>
                 /\ calls[i + 1].from = calls[i].from
                 /\ calls[i + 1].to = calls[i].to)
    /\ [](fetch_pc = "done" /\ calls # <<>> /\ fetch_error = "none" =>
             calls[Len(calls)].result = "ok")

C7_Witness ==
    /\ fetch_pc = "done"
    /\ fetch_error = "none"
    /\ Len(calls) = 3
    /\ calls[1].result = "ok"
    /\ calls[2].result = "too_many_requests"
    /\ calls[3].result = "ok"
    /\ calls[3].from = calls[2].from
    /\ calls[3].to = calls[2].to
    /\ Len(transactions) = 4

\* C8: a call that fails with another error is the last call of the fetch, the
\* error is reported, and the pending list becomes the normalized entries of
\* the windows answered before it, in order.
C8_ErrorAbortsKeepsPartial ==
    /\ \A i \in DOMAIN calls :
          calls[i].result = "error" =>
              /\ i = Len(calls)
              /\ fetch_error = "chunk"
              /\ fetch_pc \in {"normalize", "done"}
    /\ (fetch_pc = "done" /\ \E i \in DOMAIN calls : calls[i].result = "error") =>
          transactions = NormalizeAll(ReturnedEntries(calls))

C8_Witness ==
    /\ fetch_pc = "done"
    /\ Len(calls) = 2
    /\ calls[1].result = "ok"
    /\ calls[1].returned = 2
    /\ calls[2].result = "error"
    /\ fetch_error = "chunk"
    /\ Len(transactions) = 2
    /\ transactions[1].id = 1
    /\ transactions[1].amount = 250

\* C9: a fetch asked with start_date > end_date makes no get_statements call
\* and leaves the pending list as it was.
C9_InvalidRangeRejected ==
    [][start_date' > end_date' =>
          /\ calls' = <<>>
          /\ transactions' = transactions
          /\ fetch_pc' = "done"
          /\ fetch_error' = "invalid_range"]_vars

C9_Witness ==
    /\ fetch_pc = "done"
    /\ start_date > end_date
    /\ fetch_error = "invalid_range"
    /\ calls = <<>>
    /\ transactions = <<OldTransaction>>

(***************************************************************************)
(* The upload, lines 39-148 and 501-506.                                   *)
(***************************************************************************)
\* transaction.get("id") of a row that has none (a falsy id)
NoId == 0

RECURSIVE Pow2(_)
Pow2(e) == IF e <= 0 THEN 1 ELSE 2 * Pow2(e - 1)

RECURSIVE Pow2Mod25(_)
Pow2Mod25(k) == IF k <= 0 THEN 1 ELSE (2 * Pow2Mod25(k - 1)) % 25

\* the e with 25 * 2^e <= n < 25 * 2^(e+1), for n >= 1: the binary exponent of n/25
RECURSIVE ExponentOver25(_, _)
ExponentOver25(n, e) ==
    IF 25 * Pow2(e + 1) <= n THEN ExponentOver25(n, e + 1)
    ELSE IF e <= 0 /\ n * Pow2(0 - e) < 25 THEN ExponentOver25(n, e - 1)
    ELSE e

\* the binary exponent of the doubles just below n, for n >= 1
RECURSIVE ExponentBelow(_, _)
ExponentBelow(n, e) == IF Pow2(e + 1) < n THEN ExponentBelow(n, e + 1) ELSE e

\* int(amount * 100) of line 52 for amount = n / 100.0, n >= 1, in IEEE-754 double
\* arithmetic with round-to-nearest: n/100.0 is the 53-bit rounding m * 2^-(k+2)
\* of n/100, m = round(n * 2^k / 25); the product with 100 is n + d * 2^-k exactly
\* with d = 25*m - n*2^k in -12..12, and it rounds to a double below n, which int
\* truncates to n - 1, exactly when d < 0 and -d * 2^-k is over half the spacing
\* of the doubles below n
CentsOfPositive(n) ==
    LET e1 == ExponentOver25(n, 0)
        k == 52 - e1
        rem == ((n % 25) * Pow2Mod25(k)) % 25
        en == ExponentBelow(n, 0)
    IN IF rem \in 1..12 /\ rem > Pow2(en - e1 - 1) THEN n - 1 ELSE n

\* mutant: the conversion drops the fractional units
AmountCents_WholeUnits(n) == (n \div 100) * 100

\* amount_cents = int(amount * 100), line 52; int truncates toward zero
AmountCents(n) ==
    IF n = 0 THEN 0
    ELSE IF n > 0 THEN CentsOfPositive(n)
    ELSE 0 - CentsOfPositive(0 - n)

\* str.strip() on the names the model uses
Strip(name) == IF name \in {"", " ", "  "} THEN "" ELSE name

\* mutant: only the name is looked at
IsValidTransaction_NameOnly(t) == Strip(t.name) # ""

\* line 118: t.get("name", "").strip() and t.get("amount", 0) > 0
IsValidTransaction(t) == Strip(t.name) # "" /\ t.amount > 0

\* lines 116-119: valid_transactions
ValidTransactions(list) == SelectSeq(list, IsValidTransaction)

IsSelected(t) == t.selected
IsNotSelected(t) == ~t.selected

\* mutant: the title is the description alone
Title_NoMarker(name, id) == <<name>>

\* line 56: the title, as the parts the f-string joins
Title(name, id) == IF id # NoId THEN <<name, " mono-", id>> ELSE <<name>>

\* line 60: the notes
Notes(category) == IF category # "" THEN <<"Category: ", category>> ELSE <<>>

\* the id get_participants gives for a name
ParticipantId(name) == <<"id", name>>

\* mutant: the percent is handed on as it is
Weight_Percent(percent) == percent

\* line 45: int(percent * 100), basis points
Weight(percent) == percent * 100

\* lines 45-46: paid_for, one pair per participant of the client's group
PaidFor(names, shares) ==
    [i \in DOMAIN names |-> <<ParticipantId(names[i]), Weight(shares[names[i]])>>]

\* what the ledger service does with an add_expense call: it raises, or it
\* returns a response text
Outcomes == {"created", "no_expense_id", "not_json", "raises"}

\* every kind of answer the ledger service gives, the ones above and three more
\* shapes of a response that parses
AllOutcomes == Outcomes \cup {"empty_list", "wrong_shape", "misplaced_id"}

\* the response text of each kind of answer, as what lines 67-70 look at:
\* whether json.loads takes it, how many entries the parsed value has, whether
\* its first entry is a dict with dicts under result, data, json (so that the
\* .get chain of line 69 does not raise), and the expenseId found in the text
\* ("" when there is none).  "misplaced_id" is a response such as
\* {"expenseId": "e1"}: an identifier, but not where line 69 looks.
ResponseOf(outcome) ==
    CASE outcome = "created" ->
            [parses |-> TRUE, entries |-> 1, shaped |-> TRUE, expenseId |-> "e1"]
      [] outcome = "no_expense_id" ->
            [parses |-> TRUE, entries |-> 1, shaped |-> TRUE, expenseId |-> ""]
      [] outcome = "misplaced_id" ->
            [parses |-> TRUE, entries |-> 1, shaped |-> FALSE, expenseId |-> "e1"]
      [] outcome = "wrong_shape" ->
            [parses |-> TRUE, entries |-> 1, shaped |-> FALSE, expenseId |-> ""]
      [] outcome = "empty_list" ->
            [parses |-> TRUE, entries |-> 0, shaped |-> FALSE, expenseId |-> ""]
      [] OTHER ->
            [parses |-> FALSE, entries |-> 0, shaped |-> FALSE, expenseId |-> ""]

\* mutant: any non-empty response that parses counts as a success
ResponseSucceeded_AnyEntry(outcome) ==
    /\ ResponseOf(outcome).parses
    /\ ResponseOf(outcome).entries > 0

\* lines 65-74: whether the response text counts as a success
ResponseSucceeded(outcome) ==
    /\ ResponseOf(outcome).parses           \* else json.loads raises, line 72
    /\ ResponseOf(outcome).entries > 0      \* response_data and len(...) > 0
    /\ ResponseOf(outcome).shaped           \* else line 69 raises, line 72
    /\ ResponseOf(outcome).expenseId # ""   \* result.get("expenseId") is truthy

\* lines 52-63: the arguments of one add_expense call
ExpenseRequest(t, payer_id, paid_for) ==
    [title |-> Title(t.name, t.id),
     amount |-> AmountCents(t.amount),
     paid_by |-> payer_id,
     paid_for |-> paid_for,
     notes |-> Notes(t.category),
     expense_date |-> t.date]

\* an add_expense call with what came of it
ExpenseCall(request, outcome) == request @@ [outcome |-> outcome]

RECURSIVE FirstFailure(_, _, _)
FirstFailure(outcomes, i, n) ==
    IF i > n THEN n
    ELSE IF outcomes[i] # "created" THEN i
    ELSE FirstFailure(outcomes, i + 1, n)

\* mutant: the first failed transaction ends the batch
BatchCalls_AbortOnFailure(requests, outcomes) ==
    [i \in 1..FirstFailure(outcomes, 1, Len(requests)) |->
        ExpenseCall(requests[i], outcomes[i])]

\* lines 79-96: one add_expense call per transaction, an exception or a bad
\* response being reported and the loop going on
BatchCalls(requests, outcomes) ==
    [i \in DOMAIN requests |-> ExpenseCall(requests[i], outcomes[i])]

\* lines 78, 91-92, 97: success_count
SuccessCount(batch) ==
    Cardinality({i \in DOMAIN batch :
                    batch[i].outcome # "raises" /\ ResponseSucceeded(batch[i].outcome)})

\* mutant: only the missing client is checked
PreconditionError_ClientOnly(client, selected) ==
    IF client = NoGroup THEN "no_group" ELSE "none"

\* lines 101-106: the checks made before anything is called
PreconditionError(client, selected) ==
    IF client = NoGroup THEN "no_group"
    ELSE IF selected = None THEN "no_participant"
    ELSE "none"

\* lines 41-46: whether get_participant_info raises: get_participants fails, or
\* the payer or a participant's share is missing from the dicts
ParticipantInfoRaises(client, selected, shares, participantsOk) ==
    \/ ~participantsOk
    \/ selected \notin Range(ParticipantNames(client))
    \/ \E i \in DOMAIN ParticipantNames(client) :
          ParticipantNames(client)[i] \notin DOMAIN shares

\* upload_to_spliit up to the batch, lines 99-130: the message it shows if it
\* stops there (error), the get_participants calls it makes, and the add_expense
\* requests it hands to upload_transactions_batch
UploadPlan(list, client, selected, shares, participantsOk) ==
    LET pre == PreconditionError(client, selected)
        valid == ValidTransactions(list)
        names == ParticipantNames(client)
    IN IF pre # "none"
       THEN [error |-> pre, pcalls |-> 0, requests |-> <<>>]
       ELSE IF ParticipantInfoRaises(client, selected, shares, participantsOk)
       THEN [error |-> "exception", pcalls |-> 1, requests |-> <<>>]
       ELSE IF valid = <<>>
       THEN [error |-> "no_valid", pcalls |-> 1, requests |-> <<>>]
       ELSE [error |-> "none", pcalls |-> 1,
             requests |-> [i \in DOMAIN valid |->
                             ExpenseRequest(valid[i], ParticipantId(selected),
                                            PaidFor(names, shares))]]

\* the Upload to Spliit button of Step 4, lines 142-148 and 503-506: the selected
\* rows go to upload_to_spliit (lines 99-140), which returns True when a call
\* succeeded, and then the selected rows leave the pending list
UploadSelectedWith(kinds) ==
    /\ PageSettled
    /\ \E participantsOk \in BOOLEAN :
       \E input \in {SelectSeq(transactions, IsSelected)} :
       \E plan \in {UploadPlan(input, spliit_client, selected_participant,
                               participant_shares, participantsOk)} :
       \E outcomes \in [DOMAIN plan.requests -> kinds] :
       \E batch \in {BatchCalls(plan.requests, outcomes)} :
       \E count \in {SuccessCount(batch)} :
            /\ upload_input' = input
            /\ upload_error' = plan.error
            /\ participants_calls' = plan.pcalls
            /\ expense_calls' = batch
            /\ success_count' = count
            /\ upload_ok' = (count > 0)
            /\ transactions' = IF count > 0
                               THEN SelectSeq(transactions, IsNotSelected)
                               ELSE transactions
            /\ last_run' = "upload"
            /\ UNCHANGED <<groupVars, fetchVars>>

UploadSelected == UploadSelectedWith(Outcomes)

\* percents the user types into a share input (0..100 in steps of 1)
ShareValues == {49}

\* the user changes one share input, lines 257-268
SetShare ==
    /\ PageSettled
    /\ group_data # NoGroup
    /\ spliit_client # NoGroup
    /\ RenderSelected(selected_participant, ParticipantNames(spliit_client)) # None
    /\ \E p \in Range(ParticipantNames(spliit_client)), v \in ShareValues :
        LET r == RenderGroup(spliit_client, group_data, selected_participant,
                             participant_shares, TRUE)
        IN /\ r.shares[p] # v
           /\ selected_participant' = r.selected
           /\ participant_shares' = [r.shares EXCEPT ![p] = v]
    /\ last_run' = "rerun"
    /\ NoUploadRun
    /\ UNCHANGED <<spliit_client, group_data, transactions, fetchVars>>

\* rows of the pending list as the data editor shows them: fetched from the
\* bank, added by hand (no id), blanked or zeroed
SampleTransactions ==
    {[id |-> 12345, amount |-> 15000, name |-> "Coffee", mcc |-> "5812",
      category |-> "Eating Places, Restaurants", selected |-> FALSE, date |-> 3],
     [id |-> NoId, amount |-> 2550, name |-> "Lunch", mcc |-> "",
      category |-> "", selected |-> FALSE, date |-> 4],
     [id |-> 7, amount |-> 250, name |-> "  ", mcc |-> "4121",
      category |-> "Unknown (mcc)", selected |-> FALSE, date |-> 5],
     [id |-> 8, amount |-> 0, name |-> "Refund", mcc |-> "4121",
      category |-> "Unknown (mcc)", selected |-> FALSE, date |-> 6]}

Rows == {[t EXCEPT !.selected = b] : t \in SampleTransactions, b \in BOOLEAN}

\* a pending list of n valid, selected rows
BatchList(n) ==
    [i \in 1..n |->
        [id |-> IF i % 2 = 1 THEN 12345 + i ELSE NoId,
         amount |-> 29 * i,
         name |-> IF i % 2 = 1 THEN "Coffee" ELSE "Lunch",
         mcc |-> "5812",
         category |-> "Eating Places, Restaurants",
         selected |-> TRUE,
         date |-> i]]

PendingLists ==
    UNION {[1..n -> Rows] : n \in 0..MaxPending}
      \cup {BatchList(n) : n \in 0..MaxBatch}

(***************************************************************************)
(* SpecUpload: uploads from a session before any group was fetched, or     *)
(* after the group UploadGroup was fetched, with any pending list.         *)
(* upload_to_spliit makes its own checks, so the button is offered in      *)
(* every session state.                                                    *)
(***************************************************************************)
InitUpload ==
    /\ InitSession
    /\ InitNoFetch
    /\ transactions \in PendingLists

FetchUploadGroup == FetchGroupIn({UploadGroup})

NextUpload ==
    FetchUploadGroup \/ SelectParticipant \/ SetShare \/ UploadSelected \/ Rerun

SpecUpload == InitUpload /\ [][NextUpload]_vars

(***************************************************************************)
(* Claims about the upload.                                                *)
(***************************************************************************)
ValidInput == ValidTransactions(upload_input)

\* C1 as stated: an upload invoked while the shares held in the session do not
\* sum to 100 reports failure and makes no add_expense call.
C1_UploadRefusedUnlessSharesSumTo100 ==
    (last_run = "upload" /\ ShareSum(participant_shares) # 100) =>
        upload_ok = FALSE /\ expense_calls = <<>>

\* C6: in a batch every valid transaction of the list gets exactly one
\* add_expense call, in list order, whatever came of the calls before it, and
\* the success count is the number of calls that succeeded.
C6_BatchNeverAborts ==
    (last_run = "upload" /\ upload_error = "none") =>
        /\ Len(expense_calls) = Len(ValidInput)
        /\ \A i \in DOMAIN expense_calls :
              /\ expense_calls[i].title = Title(ValidInput[i].name, ValidInput[i].id)
              /\ expense_calls[i].expense_date = ValidInput[i].date
        /\ success_count =
              Cardinality({i \in DOMAIN expense_calls : expense_calls[i].outcome = "created"})
        /\ upload_ok = (success_count > 0)

C6_Witness ==
    /\ last_run = "upload"
    /\ Len(upload_input) = 5
    /\ Len(expense_calls) = 5
    /\ expense_calls[3].outcome = "raises"
    /\ \A i \in {1, 2, 4, 5} : expense_calls[i].outcome = "created"
    /\ success_count = 4
    /\ upload_ok

\* C10: an upload invoked with no ledger client, or with no payer selected,
\* reports failure before any call: no get_participants call, no add_expense
\* call, and the pending list stays as it was.
C10_PreconditionsBeforeCalls ==
    [][(last_run' = "upload"
          /\ (spliit_client = NoGroup \/ selected_participant = None)) =>
            /\ upload_ok' = FALSE
            /\ upload_error' =
                  (IF spliit_client = NoGroup THEN "no_group" ELSE "no_participant")
            /\ participants_calls' = 0
            /\ expense_calls' = <<>>
            /\ transactions' = transactions]_vars

C10_Witness ==
    /\ last_run = "upload"
    /\ spliit_client = UploadGroup
    /\ selected_participant = None
    /\ upload_error = "no_participant"
    /\ ValidInput # <<>>
    /\ participants_calls = 0
    /\ expense_calls = <<>>

\* C11 as stated: after an upload of the selected rows, every selected row that
\* was filtered out as invalid, or whose add_expense call did not succeed, is
\* still in the pending list.
C11_OnlyUploadedLeavePending ==
    last_run = "upload" =>
        /\ \A i \in DOMAIN upload_input :
              ~IsValidTransaction(upload_input[i]) =>
                  upload_input[i] \in Range(transactions)
        /\ \A i \in DOMAIN expense_calls :
              expense_calls[i].outcome # "created" =>
                  ValidInput[i] \in Range(transactions)

(***************************************************************************)
(* SpecNormalize: the normalization of lines 405-425 applied to one entry  *)
(* with any raw amount in -MaxRaw..MaxRaw, or the -15000 of a 150.00       *)
(* payment.  The session is the one a fetch of the range 0..1 has when its *)
(* single window returned that entry and the loop was left.                *)
(***************************************************************************)
RawRange == (0 - MaxRaw)..MaxRaw \cup {-15000}

InitNormalize ==
    /\ spliit_client = NoGroup
    /\ group_data = NoGroup
    /\ selected_participant = None
    /\ participant_shares = <<>>
    /\ last_run = "fetch_statements"
    /\ participants_calls = 0
    /\ expense_calls = <<>>
    /\ upload_input = <<>>
    /\ upload_ok = FALSE
    /\ success_count = 0
    /\ upload_error = "none"
    /\ transactions = <<>>
    /\ start_date = 0
    /\ end_date = 1
    /\ current_to_date = 1
    /\ calls = <<[from |-> 0, to |-> 1, result |-> "ok", returned |-> 1, slept |-> 0]>>
    /\ fetch_pc = "normalize"
    /\ fetch_error = "none"
    /\ progress = ProgressOf(0, 1, 0)
    /\ \E raw \in RawRange :
          all_statements = <<[Statement(1, 0) EXCEPT !.amount = raw]>>

NextNormalize == FetchFinish

SpecNormalize == InitNormalize /\ [][NextNormalize]_vars

Normalized == fetch_pc = "done" /\ fetch_error # "invalid_range"

\* C12 as stated: every normalized transaction has an amount above zero,
\* whatever the raw amount was, and the amount is the absolute value of the raw
\* amount (in hundredths).
C12_AmountAlwaysPositive ==
    Normalized =>
        \A i \in DOMAIN transactions :
            /\ transactions[i].amount > 0
            /\ transactions[i].amount \in {all_statements[i].amount,
                                           0 - all_statements[i].amount}

\* C12, amended: the normalized amount is the absolute value of the raw amount
\* (in hundredths), so it is never negative, and it is above zero exactly when
\* the raw amount is not zero.
C12_AmountIsAbsoluteValue ==
    Normalized =>
        /\ Len(transactions) = Len(all_statements)
        /\ \A i \in DOMAIN transactions :
              /\ transactions[i].amount >= 0
              /\ transactions[i].amount \in {all_statements[i].amount,
                                             0 - all_statements[i].amount}
              /\ (transactions[i].amount > 0) = (all_statements[i].amount # 0)

C12_Witness ==
    /\ Normalized
    /\ Len(transactions) = 1
    /\ all_statements[1].amount = -15000
    /\ transactions[1].amount = 15000

(***************************************************************************)
(* SpecRows: uploads of pending lists of up to MaxPending rows of every    *)
(* kind (valid ones, and ones with an empty or blank name or an amount of  *)
(* zero or below), the ledger service answering in every way of            *)
(* AllOutcomes.                                                            *)
(***************************************************************************)
RowSamples ==
    SampleTransactions \cup
    {[id |-> 9, amount |-> 1200, name |-> "", mcc |-> "4121",
      category |-> "Unknown (mcc)", selected |-> FALSE, date |-> 7],
     [id |-> NoId, amount |-> -500, name |-> "Return", mcc |-> "",
      category |-> "", selected |-> FALSE, date |-> 8]}

RowLists ==
    UNION {[1..n -> {[t EXCEPT !.selected = b] : t \in RowSamples, b \in BOOLEAN}] :
              n \in 0..MaxPending}

InitRows ==
    /\ InitSession
    /\ InitNoFetch
    /\ transactions \in RowLists

UploadRows == UploadSelectedWith(AllOutcomes)

NextRows == FetchUploadGroup \/ SelectParticipant \/ UploadRows \/ Rerun

SpecRows == InitRows /\ [][NextRows]_vars

Uploaded == last_run = "upload" /\ upload_error = "none"

FailureOutcomes ==
    {"not_json", "empty_list", "wrong_shape", "misplaced_id", "no_expense_id", "raises"}

\* C13: a call counts as a success only when its response parses and holds the
\* created expense's identifier where it belongs; a response that does not
\* parse, has an unexpected shape or no expenseId, and a call that raises, count
\* as failures, and a failure is that transaction's alone: the calls after it
\* are made and counted all the same.
C13_SuccessNeedsExpenseId ==
    Uploaded =>
        /\ Len(expense_calls) = Len(ValidInput)
        /\ \A i \in DOMAIN expense_calls :
              expense_calls[i].outcome \in FailureOutcomes \cup {"created"}
        /\ success_count = Len(expense_calls) -
              Cardinality({i \in DOMAIN expense_calls :
                              expense_calls[i].outcome \in FailureOutcomes})
        /\ upload_ok = (\E i \in DOMAIN expense_calls :
                            expense_calls[i].outcome = "created")

C13_Witness ==
    /\ Uploaded
    /\ Len(expense_calls) = 2
    /\ expense_calls[1].outcome = "raises"
    /\ expense_calls[2].outcome = "created"
    /\ success_count = 1

C15_TitleCarriesExternalId ==
    Uploaded =>
        /\ Len(expense_calls) = Len(ValidInput)
        /\ \A i \in DOMAIN expense_calls :
              IF ValidInput[i].id # NoId
              THEN /\ Len(expense_calls[i].title) = 3
                   /\ expense_calls[i].title[1] = ValidInput[i].name
                   /\ expense_calls[i].title[2] = " mono-"
                   /\ expense_calls[i].title[3] = ValidInput[i].id
              ELSE expense_calls[i].title = <<ValidInput[i].name>>
        /\ \A i, j \in DOMAIN expense_calls :
              ValidInput[i] = ValidInput[j] =>
                  expense_calls[i].title = expense_calls[j].title

C15_Witness ==
    /\ Uploaded
    /\ Len(upload_input) = 2
    /\ upload_input[1] = upload_input[2]
    /\ Len(expense_calls) = 2
    /\ expense_calls[1].title = <<"Coffee", " mono-", 12345>>
    /\ expense_calls[2].title = <<"Coffee", " mono-", 12345>>
    /\ expense_calls[1].outcome = "created"
    /\ expense_calls[2].outcome = "created"

(***************************************************************************)
(* SpecWeights: uploads of one valid row after the group UploadGroup was   *)
(* fetched, a payer chosen and the share inputs set to any of the percents *)
(* of ShareChoices.                                                        *)
(***************************************************************************)
ShareChoices == {0, 1, 33, 34, 50, 66, 67, 99, 100}

InitWeights ==
    /\ spliit_client = UploadGroup
    /\ group_data = UploadGroup
    /\ selected_participant \in Range(ParticipantNames(UploadGroup))
    /\ participant_shares \in [Range(ParticipantNames(UploadGroup)) -> ShareChoices]
    /\ last_run = "rerun"
    /\ participants_calls = 0
    /\ expense_calls = <<>>
    /\ upload_input = <<>>
    /\ upload_ok = FALSE
    /\ success_count = 0
    /\ upload_error = "none"
    /\ InitNoFetch
    /\ transactions = BatchList(1)

NextWeights == UploadSelected \/ Rerun

SpecWeights == InitWeights /\ [][NextWeights]_vars

RECURSIVE WeightSum(_)
WeightSum(paid_for) ==
    IF paid_for = <<>> THEN 0
    ELSE Head(paid_for)[2] + WeightSum(Tail(paid_for))

\* C16: when the percents of the share map sum to 100, the paid_for list of
\* every add_expense call holds one pair per participant of the group, the
\* weight of each being its percent times 100, and the weights sum to 10000.
C16_WeightsArePercentTimes100 ==
    (Uploaded /\ ShareSum(participant_shares) = 100) =>
        \A c \in DOMAIN expense_calls :
            LET paid_for == expense_calls[c].paid_for
                names == ParticipantNames(spliit_client)
            IN /\ Len(paid_for) = Len(names)
               /\ \A k \in DOMAIN names :
                     /\ paid_for[k][1] = ParticipantId(names[k])
                     /\ paid_for[k][2] = participant_shares[names[k]] * 100
               /\ WeightSum(paid_for) = 10000

C16_Witness ==
    /\ Uploaded
    /\ Len(expense_calls) = 1
    /\ participant_shares["Ann"] = 33
    /\ ShareSum(participant_shares) = 100
    /\ expense_calls[1].paid_for[1] = <<ParticipantId("Ann"), 3300>>
    /\ WeightSum(expense_calls[1].paid_for) = 10000

\* the number of entries the first n calls of the fetch returned
RECURSIVE ReturnedCount(_)
ReturnedCount(n) ==
    IF n = 0 THEN 0 ELSE ReturnedCount(n - 1) + calls[n].returned

\* C17: the pending list a fetch leaves holds the normalized entries in fetch
\* order: one transaction per returned entry, none dropped or repeated, the
\* entries of an earlier call (a more recent window) before those of a later
\* one, and the entries of one call in the order the service returned them.
C17_FetchOrderKept ==
    Normalized =>
        /\ Len(transactions) = ReturnedCount(Len(calls))
        /\ \A i \in DOMAIN transactions :
              /\ transactions[i].id = i
              /\ transactions[i].id = all_statements[i].id
              /\ transactions[i].name = all_statements[i].description
        /\ \A c \in DOMAIN calls :
              \A i \in (ReturnedCount(c - 1) + 1)..ReturnedCount(c) :
                  transactions[i].date = calls[c].from
        /\ \A i, j \in DOMAIN transactions :
              i < j => transactions[i].date >= transactions[j].date

C17_Witness ==
    /\ Normalized
    /\ Len(calls) = 2
    /\ calls[1].returned = 2
    /\ calls[2].returned = 2
    /\ Len(transactions) = 4
    /\ transactions[2].date > transactions[3].date
    /\ transactions[3].id = 3

\* C18: between any two consecutive get_statements calls the handler sleeps the
\* cooldown of 5 seconds, after an answered window that is not the last one and
\* after a rate-limit signal alike; after the call that ends the loop it does
\* not sleep.
C18_CooldownBetweenCalls ==
    /\ \A i \in DOMAIN calls :
          /\ i < Len(calls) => calls[i].slept = 5
          /\ calls[i].result = "too_many_requests" => calls[i].slept = 5
          /\ (calls[i].result = "ok" /\ calls[i].from > start_date) =>
                calls[i].slept = 5
          /\ calls[i].slept \in {0, Cooldown}
    /\ (LoopLeft /\ calls # <<>>) => calls[Len(calls)].slept = 0
    /\ fetch_pc = "loop" /\ calls # <<>> => calls[Len(calls)].slept = 5

C18_Witness ==
    /\ fetch_pc = "done"
    /\ Len(calls) = 3
    /\ calls[1].result = "ok"
    /\ calls[1].slept = 5
    /\ calls[2].result = "too_many_requests"
    /\ calls[2].slept = 5
    /\ calls[3].result = "ok"
    /\ calls[3].slept = 0

\* C19 as stated: for every valid range, the single-day one included, and a
\* service that never fails, the fetch leaves the loop through the stop
\* condition and reports no error; the progress fraction stays within [0,1].
C19_ProgressNeverFailsFetch ==
    (LoopLeft /\ AllCallsOk) =>
        /\ fetch_error = "none"
        /\ calls[Len(calls)].from <= start_date
        /\ 0 <= progress[1] /\ progress[1] <= progress[2]

(***************************************************************************)
(* SpecFetchLive: the fetch handler under the scheduling of a script run:  *)
(* the handler is straight-line code on one thread, a sleep and a call     *)
(* return, so a pass of the loop that can be taken is taken, and so is the *)
(* normalization once the loop is left.                                    *)
(***************************************************************************)
SpecFetchLive == SpecFetch /\ WF_vars(FetchWindow) /\ WF_vars(FetchFinish)

AnsweredAndGoesOn ==
    /\ Len(calls') = Len(calls) + 1
    /\ calls'[Len(calls')].result = "ok"
    /\ fetch_pc' = "loop"

\* C20: with finitely many rate-limit signals the fetch loop terminates: every
\* answered call that does not end the loop moves the window end strictly
\* back, the answered calls of a fetch over R days number at most
\* ceil(R/31), and a handler in the loop always gets to the end of the fetch.
C20_LoopTerminates ==
    /\ [][AnsweredAndGoesOn =>
             /\ current_to_date' < current_to_date
             /\ current_to_date' >= start_date]_vars
    /\ [](calls # <<>> => Cardinality(OkCalls) <= (RangeDays + 30) \div 31)
    /\ (fetch_pc = "loop") ~> (fetch_pc = "done")

C20_Witness ==
    /\ fetch_pc = "done"
    /\ Len(calls) = 4
    /\ calls[2].result = "too_many_requests"
    /\ Cardinality(OkCalls) = 3
    /\ calls[4].to < calls[3].to
    /\ calls[3].to < calls[1].to

(***************************************************************************)
(* Claims about the order of the default shares.                           *)
(***************************************************************************)
\* lines 252-254: the participant names with the selected one moved to the
\* front, the order in which the share inputs are drawn
FrontOrder(names, sel) ==
    LET Others(p) == p # sel
    IN <<sel>> \o SelectSeq(names, Others)

\* C21 as stated: the default shares follow the participant list with the
\* current user moved to the front, so that with two participants or more the
\* current user does not hold the remainder share.
C21_RemainderFollowsFrontOrder ==
    (last_run = "fetch_group_ok" /\ selected_participant # None
                                 /\ Len(FetchedNames) >= 2) =>
        participant_shares = DefaultShares(FrontOrder(FetchedNames, selected_participant))

\* C21, amended: the default shares follow the participant list as
\* get_participants returns it, whoever is selected: floor(100/N) for the first
\* N-1 names and the remainder for the last one, and choosing the current user
\* afterwards moves no share.  The current user holds the remainder share
\* whenever it is the last name of the list.
C21_RemainderToLastListed ==
    /\ [](last_run = "fetch_group_ok" =>
            LET n == Len(FetchedNames)
            IN /\ \A i \in 1..(n - 1) :
                     participant_shares[FetchedNames[i]] = 100 \div n
               /\ participant_shares[FetchedNames[n]] = 100 - (100 \div n) * (n - 1)
               /\ selected_participant = FetchedNames[n] =>
                     participant_shares[selected_participant] =
                         (100 \div n) + (100 % n))
    /\ [][(last_run = "fetch_group_ok" /\ last_run' = "rerun") =>
             participant_shares' = participant_shares]_vars

C21_Witness ==
    /\ last_run = "fetch_group_ok"
    /\ Len(FetchedNames) = 3
    /\ selected_participant = "Cat"
    /\ participant_shares["Cat"] = 34
    /\ participant_shares["Ann"] = 33

(***************************************************************************)
(* Claims about the amounts posted.                                        *)
(***************************************************************************)
\* C22 as stated: the amount of every add_expense call, in minor units, is the
\* amount of the pending transaction in hundredths, which for a transaction
\* the fetch produced is the absolute value of the bank's raw amount.
C22_RoundTripLossless ==
    Uploaded =>
        \A i \in DOMAIN expense_calls :
            expense_calls[i].amount = ValidInput[i].amount

(***************************************************************************)
(* Claims about the session after Fetch Group.                             *)
(***************************************************************************)
\* C23 as stated: whatever Fetch Group actions were taken, failed ones
\* included, the group data held is that of the active ledger client's group
\* and the share map has exactly the participants of that group as its keys.
C23_SessionConsistent ==
    spliit_client # NoGroup =>
        /\ group_data = spliit_client
        /\ DOMAIN participant_shares = Range(FetchedNames)

(***************************************************************************)
(* Claims about the pending list after a fetch.                            *)
(***************************************************************************)
\* C24: the end of a fetch, complete or cut short by an error, puts the newly
\* normalized entries in place of the pending list: one unselected transaction
\* per fetched entry and nothing of the list held before; until then, and in a
\* fetch refused for its range, the pending list is left as it was.
C24_FetchReplacesPending ==
    /\ [][(fetch_pc = "normalize" /\ fetch_pc' = "done") =>
             /\ Len(transactions') = Len(all_statements)
             /\ \A i \in DOMAIN transactions' :
                   /\ transactions'[i].id = all_statements[i].id
                   /\ transactions'[i].selected = FALSE
             /\ \A i \in DOMAIN transactions :
                   transactions[i] \notin Range(transactions')]_vars
    /\ [][~(fetch_pc = "normalize" /\ fetch_pc' = "done") =>
             transactions' = transactions]_vars
    /\ [](fetch_error = "invalid_range" => fetch_pc = "done" /\ calls = <<>>)

C24_Witness ==
    /\ fetch_pc = "done"
    /\ fetch_error = "chunk"
    /\ Len(calls) = 2
    /\ calls[2].result = "error"
    /\ Len(transactions) = 2
    /\ transactions[1].id = 1
    /\ \A i \in DOMAIN transactions : ~transactions[i].selected

====
